---- MODULE Spec2Model ----
(***************************************************************************)
(* A model of auto_encoder/train_model.py: the preprocessing functions     *)
(* resize and preprocess_label, the dataset indexer (glob lists, filename  *)
(* pattern, positional zip), and the __main__ script (allocation, load     *)
(* loop with its per-subject try/except, fit, save, history dump).         *)
(*                                                                         *)
(* Arrays are modelled by their shapes and by which subject's data a row   *)
(* holds; voxel data is modelled only for preprocess_label, which is       *)
(* element-wise.  Paths are sequences of tokens; every path ends in the    *)
(* suffix ".nii.gz", which the globs guarantee and which is left implicit. *)
(***************************************************************************)
EXTENDS Integers, Sequences, FiniteSets, TLC

VARIABLES
    pc,            \* position of the script: "alloc", "load", "build", "fit", ...
    DEBUG,         \* line 78 (configuration: the debug sample limit)
    target_shape,  \* the literal (80, 96, 64) of lines 102/104 (configuration)
    data_paths,    \* line 95: sequence of per-subject mappings key -> path
    unreadable,    \* the paths sitk.ReadImage cannot decode (file system)
    input_shape,   \* lines 102-104
    data,          \* lines 107/111: [shape, rows], rows indexed from 0
    labels,        \* lines 108/112
    total,         \* lines 117-120
    endpoint,      \* lines 123-126
    i,             \* enumerate index of the next subject of the load loop
    visited,       \* history: the iterations run, [i, exc, at] each
    stdout,        \* what the script has printed, in order
    exc,           \* the uncaught exception that ended the run, or "none"
    model_saved,   \* line 155: the saved model directory exists
    history_file,  \* lines 157-158: "absent", "empty" or "written"
    args,          \* arguments of a function call (function-level specifications)
    ret            \* its result

vars == <<pc, DEBUG, target_shape, data_paths, unreadable, input_shape, data,
          labels, total, endpoint, i, visited, stdout, exc, model_saved,
          history_file, args, ret>>

-----------------------------------------------------------------------------
(* Bounds of the model. *)

\* the largest number of indexed subjects
MaxN == 5
\* the largest length of one glob list in the indexer specification
MaxFiles == 2
\* the largest target axis length tried in the resize specification
MaxTarget == 3
\* volumes of k times the canonical axis length, k in 1..MaxScale
MaxScale == 2
\* the largest number of voxels of a label array
MaxVoxels == 3
\* voxel values 0..MaxCode
MaxCode == 4

Min(a, b) == IF a < b THEN a ELSE b
Max(a, b) == IF a > b THEN a ELSE b

-----------------------------------------------------------------------------
(* Python and numpy semantics the script relies on. *)

\* seq[:e]
PySliceTo(seq, e) ==
    LET n == Len(seq)
        stop == IF e < 0 THEN Max(n + e, 0) ELSE Min(e, n)
    IN  SubSeq(seq, 1, stop)

\* round(n / d) for n >= 0, d > 0: Python 3 rounds a tie to the even integer
RoundHalfEven(n, d) ==
    LET q == n \div d
        r == n % d
    IN  IF 2 * r < d THEN q
        ELSE IF 2 * r > d THEN q + 1
        ELSE IF q % 2 = 0 THEN q ELSE q + 1

\* math.ceil(n / d) for n >= 0, d > 0
Ceil(n, d) == (n + d - 1) \div d

\* numpy drops the leading axes of length 1 a source has beyond the target's rank
RECURSIVE StripLeadingOnes(_, _)
StripLeadingOnes(src, rank) ==
    IF Len(src) > rank /\ src[1] = 1 THEN StripLeadingOnes(Tail(src), rank)
    ELSE src

\* whether an array of shape src can be assigned (broadcast) into one of shape dst
CanAssign(src, dst) ==
    LET s == StripLeadingOnes(src, Len(dst))
        off == Len(dst) - Len(s)
    IN  /\ Len(s) <= Len(dst)
        /\ \A k \in 1..Len(s) : s[k] = dst[k + off] \/ s[k] = 1

-----------------------------------------------------------------------------
(* Results of calls: the exception raised ("none" when the call returns)    *)
(* and the value returned.                                                  *)

Return(v) == [exc |-> "none", val |-> v]
Raise(e) == [exc |-> e, val |-> <<>>]

\* Python's None for an optional shape argument (no call here passes an empty tuple)
None == <<>>

-----------------------------------------------------------------------------
(* resize, lines 30-42.  An image is modelled by its shape.                 *)

\* the default orig_shape of line 30
OrigShape == <<155, 240, 240>>

\* scipy.ndimage.zoom(img, factors): the output's axis k has length
\* round(img.shape[k] * factors[k]); a factor is the pair <<numerator, denominator>>
\* of the true division of lines 36-38 (exact here, a double in the code)
zoom(img, factors) ==
    IF Len(factors) # Len(img) THEN Raise("RuntimeError")
    ELSE Return([k \in 1..Len(img) |->
                    RoundHalfEven(img[k] * factors[k][1], factors[k][2])])

\* resize with the third factor taken from axis 1
resize_axis_slip(img, shape, orig_shape) ==
    IF Len(shape) # 3 THEN Raise("AssertionError")
    ELSE zoom(img, << <<shape[1], orig_shape[1]>>,
                      <<shape[2], orig_shape[2]>>,
                      <<shape[2], orig_shape[2]>> >>)

resize(img, shape, orig_shape) ==
    IF Len(shape) # 3 THEN Raise("AssertionError")
    ELSE zoom(img, << <<shape[1], orig_shape[1]>>,
                      <<shape[2], orig_shape[2]>>,
                      <<shape[3], orig_shape[3]>> >>)

-----------------------------------------------------------------------------
(* preprocess_label, lines 59-74.  A label array is [shape, vox]: its shape *)
(* and its voxels in flattened order.                                       *)

\* img == code, element-wise
EqualTo(img, code) == [v \in DOMAIN img.vox |-> img.vox[v] = code]

\* dtype=np.uint8 of a boolean array
AsUint8(mask) == [v \in DOMAIN mask |-> IF mask[v] THEN 1 ELSE 0]

\* preprocess_label with the third mask compared against 3
preprocess_label_contiguous(img, out_shape) ==
    LET ncr == EqualTo(img, 1)
        ed == EqualTo(img, 2)
        et == EqualTo(img, 3)
    IN  Return([shape |-> <<3>> \o img.shape,
                vox |-> <<AsUint8(ncr), AsUint8(ed), AsUint8(et)>>])

\* With an out_shape each mask is resized (nearest); the three calls have the
\* same arguments but the mask, so they raise or return the same shape.  The
\* interpolated voxel values are not modelled: vox is then empty.
preprocess_label(img, out_shape) ==
    LET ncr == EqualTo(img, 1)
        ed == EqualTo(img, 2)
        et == EqualTo(img, 4)
    IN  IF out_shape # None
        THEN LET r == resize(img.shape, out_shape, OrigShape)
             IN  IF r.exc # "none" THEN r
                 ELSE Return([shape |-> <<3>> \o r.val, vox |-> <<>>])
        ELSE Return([shape |-> <<3>> \o img.shape,
                     vox |-> <<AsUint8(ncr), AsUint8(ed), AsUint8(et)>>])

-----------------------------------------------------------------------------
(* The dataset indexer, lines 87-99.                                        *)

\* the order of the lists in zip(t1, t2, t1ce, flair, seg), line 99
GlobOrder == <<"t1", "t2", "t1ce", "flair", "seg">>

\* \w: a letter, a digit or the underscore (tokens are words, "_", "-", "/")
IsWord(tok) == tok \notin {"-", "/"}

\* pat.findall(path) for pat = '.*_(\w*)\.nii\.gz' (line 93) on a path that
\* ends in ".nii.gz": the greedy .* backtracks to the last underscore from
\* which only word characters run to the suffix; the group is that run
findall(path) ==
    LET P == {p \in 1..Len(path) :
                 /\ path[p] = "_"
                 /\ \A q \in (p + 1)..Len(path) : IsWord(path[q])}
        last == CHOOSE p \in P : \A q \in P : q <= p
    IN  IF P = {} THEN <<>> ELSE <<SubSeq(path, last + 1, Len(path))>>

\* the dict comprehension of lines 95-98 for one tuple of zip: findall(item)[0]
\* raises IndexError when nothing matches; a later item replaces an equal key
Mapping(items) ==
    LET found == [j \in 1..Len(items) |-> findall(items[j])]
    IN  IF \E j \in 1..Len(items) : found[j] = <<>>
        THEN Raise("IndexError")
        ELSE LET keys == {found[j][1] : j \in 1..Len(items)}
                 lastOf(k) == CHOOSE j \in 1..Len(items) :
                                 /\ found[j][1] = k
                                 /\ \A h \in (j + 1)..Len(items) : found[h][1] # k
             IN  Return([k \in keys |-> items[lastOf(k)]])

\* the length of the shortest of the lists (at least one list)
RECURSIVE MinLen(_)
MinLen(lists) ==
    IF Len(lists) = 1 THEN Len(lists[1])
    ELSE Min(Len(lists[1]), MinLen(Tail(lists)))

\* the length of the longest of the lists
RECURSIVE MaxLen(_)
MaxLen(lists) ==
    IF Len(lists) = 1 THEN Len(lists[1])
    ELSE Max(Len(lists[1]), MaxLen(Tail(lists)))

\* a zip that runs to the longest list, a short list repeating its last item
ZipLongest(lists) ==
    IF MinLen(lists) = 0 THEN << >>
    ELSE [k \in 1..MaxLen(lists) |->
             [j \in 1..Len(lists) |-> lists[j][Min(k, Len(lists[j]))]]]

\* zip(*lists), line 99: as many tuples as the shortest list has items
Zip(lists) ==
    [k \in 1..MinLen(lists) |-> [j \in 1..Len(lists) |-> lists[j][k]]]

\* data_paths of lines 95-99: the first IndexError ends the script
Index(lists) ==
    LET tuples == Zip(lists)
        maps == [k \in 1..Len(tuples) |-> Mapping(tuples[k])]
    IN  IF \E k \in 1..Len(tuples) : maps[k].exc # "none"
        THEN Raise("IndexError")
        ELSE Return([k \in 1..Len(tuples) |-> maps[k].val])

-----------------------------------------------------------------------------
(* The files of the data set.                                               *)

\* names of the subject directories
SubjectNames == <<"s1", "s2", "s3", "s4", "s5", "s6", "s7", "s8">>

\* '<path>/*GG/<subject>/' of lines 81 and 87-91: it holds underscores
\* ("MICCAI_BraTS_2018_Data_Training") and path separators
Root(k) == <<"MICCAI", "_", "Training", "/", "HGG", "/", SubjectNames[k], "/">>

\* The file of modality m of subject k.  Every variant matches the glob
\* '*<m>.nii.gz':
\*   "std"    <subject>_<m>.nii.gz    the data set's naming
\*   "nosep"  <subject>-<m>.nii.gz    no underscore before the modality
\*   "prefix" <subject>_x<m>.nii.gz   the word after the underscore is longer
File(k, m, variant) ==
    Root(k) \o CASE variant = "std" -> <<SubjectNames[k], "_", m>>
                 [] variant = "nosep" -> <<SubjectNames[k], "-", m>>
                 [] variant = "prefix" -> <<SubjectNames[k], "_", "x", m>>

\* the key of a modality name, as findall returns it for a "std" file
Key(m) == <<m>>

-----------------------------------------------------------------------------
(* The script, lines 77-158.                                                *)

\* the modalities read into a row of data, in the order of line 130
Modalities == <<"t1", "t2", "t1ce", "flair">>

\* a row np.empty allocated and nothing has written yet
Uninit == <<>>

\* sitk.ReadImage cannot decode the file: RuntimeError; a decoded volume has
\* the canonical shape, its voxels are not modelled
read_img(img_path) ==
    IF img_path \in unreadable THEN Raise("RuntimeError")
    ELSE Return([shape |-> OrigShape, vox |-> <<>>])

\* preprocess, lines 45-56: the normalisation keeps the shape and raises nothing
preprocess(img, out_shape) ==
    IF out_shape # None
    THEN LET r == resize(img.shape, out_shape, OrigShape)
         IN  IF r.exc # "none" THEN r ELSE Return([shape |-> r.val, vox |-> <<>>])
    ELSE Return(img)

\* preprocess(read_img(imgs[m]), input_shape[1:]) of line 130
LoadModality(imgs, m, out_shape) ==
    IF Key(m) \notin DOMAIN imgs THEN Raise("KeyError")
    ELSE LET r == read_img(imgs[Key(m)])
         IN  IF r.exc # "none" THEN r ELSE preprocess(r.val, out_shape)

\* the index of the first modality of ms whose loading raises, 0 if none does
FirstFailing(imgs, ms, out_shape) ==
    LET F == {k \in 1..Len(ms) : LoadModality(imgs, ms[k], out_shape).exc # "none"}
    IN  IF F = {} THEN 0 ELSE CHOOSE k \in F : \A h \in F : k <= h

\* np.array([a1, ..., an]) of arrays of shapes: equal shapes stack
Stack(shapes) ==
    IF \A k \in 1..Len(shapes) : shapes[k] = shapes[1]
    THEN Return(<<Len(shapes)>> \o shapes[1])
    ELSE Raise("ValueError")

\* arr[idx] = value for a value of shape vshape: IndexError outside the rows,
\* ValueError when the value does not broadcast into the row
AssignRow(arr, idx, vshape, value) ==
    IF idx \notin DOMAIN arr.rows THEN [exc |-> "IndexError", arr |-> arr]
    ELSE IF ~CanAssign(vshape, Tail(arr.shape)) THEN [exc |-> "ValueError", arr |-> arr]
    ELSE [exc |-> "none", arr |-> [arr EXCEPT !.rows[idx] = value]]

\* the statement of line 132: labels[i] = preprocess_label(...)[None, ...]
AssignLabels(imgs, idx, lab, out_shape) ==
    IF Key("seg") \notin DOMAIN imgs THEN [exc |-> "KeyError", arr |-> lab]
    ELSE LET r == read_img(imgs[Key("seg")])
         IN  IF r.exc # "none" THEN [exc |-> r.exc, arr |-> lab]
             ELSE LET l == preprocess_label(r.val, out_shape)
                  IN  IF l.exc # "none" THEN [exc |-> l.exc, arr |-> lab]
                      ELSE AssignRow(lab, idx, <<1>> \o l.val.shape, imgs[Key("seg")])

\* the value of line 130: the four preprocessed volumes, stacked
LoadData(imgs, out_shape) ==
    LET f == FirstFailing(imgs, Modalities, out_shape)
    IN  IF f # 0
        THEN [exc |-> LoadModality(imgs, Modalities[f], out_shape).exc,
              at |-> Modalities[f], shape |-> <<>>]
        ELSE LET st == Stack([k \in 1..Len(Modalities) |->
                                LoadModality(imgs, Modalities[k], out_shape).val.shape])
             IN  [exc |-> st.exc, at |-> "data", shape |-> st.val]

\* the volumes a written row of data holds
SourcesOf(imgs) == [k \in 1..Len(Modalities) |-> imgs[Key(Modalities[k])]]

\* a try body that computes both values before it assigns either row
TryBodyAtomic(imgs, idx) ==
    LET out_shape == Tail(input_shape)
        v == LoadData(imgs, out_shape)
    IN  IF v.exc # "none"
        THEN [exc |-> v.exc, at |-> v.at, data |-> data, labels |-> labels]
        ELSE LET l == AssignLabels(imgs, idx, labels, out_shape)
             IN  IF l.exc # "none"
                 THEN [exc |-> l.exc, at |-> "seg", data |-> data, labels |-> labels]
                 ELSE LET d == AssignRow(data, idx, v.shape, SourcesOf(imgs))
                      IN  IF d.exc # "none"
                          THEN [exc |-> d.exc, at |-> "data", data |-> data,
                                labels |-> labels]
                          ELSE [exc |-> "none", at |-> "none", data |-> d.arr,
                                labels |-> l.arr]

\* the try body, lines 130-138: [exc, at, data, labels], the exception raised
\* ("none"), the step that raised it, and the two tensors afterwards
TryBody(imgs, idx) ==
    LET out_shape == Tail(input_shape)
        v == LoadData(imgs, out_shape)
    IN  IF v.exc # "none"
        THEN [exc |-> v.exc, at |-> v.at, data |-> data, labels |-> labels]
        ELSE LET d == AssignRow(data, idx, v.shape, SourcesOf(imgs))
             IN  IF d.exc # "none"
                 THEN [exc |-> d.exc, at |-> "data", data |-> data, labels |-> labels]
                 ELSE LET l == AssignLabels(imgs, idx, labels, out_shape)
                      IN  [exc |-> l.exc,
                           at |-> IF l.exc # "none" THEN "seg" ELSE "none",
                           data |-> d.arr, labels |-> l.arr]

\* a handler for the I/O and shape errors only
CaughtIOAndShapeOnly(e) == e \in {"KeyError", "RuntimeError", "ValueError", "IndexError"}

\* except Exception, line 139: every exception the body can raise is one
Caught(e) ==
    e \in {"KeyError", "RuntimeError", "ValueError", "IndexError", "AssertionError"}

\* input_shape, lines 102-104
InputShape(debug, paths, target) ==
    IF debug THEN <<4>> \o target ELSE <<Len(paths)>> \o target

\* len(data_paths) or len(data_paths[:4]): the rows of lines 107-112 and the
\* total of lines 117-120
Rows(debug, paths) == IF debug THEN Len(PySliceTo(paths, 4)) ELSE Len(paths)

\* an endpoint one past the debug limit
EndpointOffByOne(debug) == IF debug THEN 5 ELSE -1

\* endpoint, lines 123-126
Endpoint(debug) == IF debug THEN 4 ELSE -1

\* the names the module binds: lines 13-21 and 114
Imported == {"sitk", "np", "build_model", "glob", "zoom", "re", "os", "History",
             "datetime", "math"}

\* the kinds of subject of the data set: all files well named and readable;
\* the t1 (seg) file named so that its key is not 't1' ('seg'); the flair
\* file undecodable
SubjectKinds == {"ok", "no_t1", "no_seg", "bad_flair"}

VariantOf(kind, m) ==
    IF (kind = "no_t1" /\ m = "t1") \/ (kind = "no_seg" /\ m = "seg")
    THEN "prefix" ELSE "std"

ListsOf(kinds) ==
    [j \in 1..Len(GlobOrder) |->
        [k \in 1..Len(kinds) |-> File(k, GlobOrder[j], VariantOf(kinds[k], GlobOrder[j]))]]

UnreadableOf(kinds) ==
    {File(k, "flair", "std") : k \in {h \in 1..Len(kinds) : kinds[h] = "bad_flair"}}

NotReturned == [exc |-> "pending", val |-> <<>>]

\* the state after line 99
Init ==
    /\ pc = "alloc"
    /\ DEBUG \in BOOLEAN
    /\ target_shape \in {<<80, 96, 64>>, <<80, 96>>}
    /\ \E n \in 0..MaxN : \E kinds \in [1..n -> SubjectKinds] :
          /\ data_paths \in {Index(ListsOf(kinds)).val}
          /\ unreadable = UnreadableOf(kinds)
    /\ input_shape = <<>>
    /\ data = [shape |-> <<>>, rows |-> <<>>]
    /\ labels = [shape |-> <<>>, rows |-> <<>>]
    /\ total = 0
    /\ endpoint = 0
    /\ i = 0
    /\ visited = <<>>
    /\ stdout = <<>>
    /\ exc = "none"
    /\ model_saved = FALSE
    /\ history_file = "absent"
    /\ args = <<>>
    /\ ret = NotReturned

Line(kind, path, e, pct) == [kind |-> kind, path |-> path, exc |-> e, pct |-> pct]

\* lines 101-126; with no subject, step = 25 / total divides by zero
Allocate ==
    /\ pc = "alloc"
    /\ LET shp == InputShape(DEBUG, data_paths, target_shape)
           n == Rows(DEBUG, data_paths)
       IN  /\ input_shape' = shp
           /\ data' = [shape |-> <<n>> \o shp, rows |-> [r \in 0..(n - 1) |-> Uninit]]
           /\ labels' = [shape |-> <<n, 3>> \o Tail(shp),
                         rows |-> [r \in 0..(n - 1) |-> Uninit]]
           /\ total' = n
           /\ stdout' = Append(stdout, Line("reading", <<>>, "none", 0))
           /\ IF n = 0
              THEN /\ exc' = "ZeroDivisionError"
                   /\ pc' = "crashed"
                   /\ UNCHANGED endpoint
              ELSE /\ endpoint' = Endpoint(DEBUG)
                   /\ pc' = "load"
                   /\ UNCHANGED exc
    /\ UNCHANGED <<DEBUG, target_shape, data_paths, unreadable, i, visited,
                   model_saved, history_file, args, ret>>

\* one iteration of the loop of lines 128-141, its handler included
LoadSubject ==
    /\ pc = "load"
    /\ i < Len(PySliceTo(data_paths, endpoint))
    /\ \E imgs \in {PySliceTo(data_paths, endpoint)[i + 1]} :
       \E b \in {TryBody(imgs, i)} :
           /\ data' = b.data
           /\ labels' = b.labels
           /\ visited' = Append(visited, [i |-> i, exc |-> b.exc, at |-> b.at])
           /\ IF b.exc = "none"
              THEN /\ stdout' = Append(stdout, Line("progress", <<>>, "none",
                                                    Ceil((i + 1) * 100, total)))
                   /\ i' = i + 1
                   /\ UNCHANGED <<pc, exc>>
              ELSE IF ~Caught(b.exc)
              THEN /\ exc' = b.exc
                   /\ pc' = "crashed"
                   /\ UNCHANGED <<stdout, i>>
              ELSE IF Key("t1") \notin DOMAIN imgs
              THEN \* imgs["t1"] in the handler's message, line 140
                   /\ exc' = "KeyError"
                   /\ pc' = "crashed"
                   /\ UNCHANGED <<stdout, i>>
              ELSE /\ stdout' = Append(stdout, Line("skip", imgs[Key("t1")], b.exc, 0))
                   /\ i' = i + 1
                   /\ UNCHANGED <<pc, exc>>
    /\ UNCHANGED <<DEBUG, target_shape, data_paths, unreadable, input_shape, total,
                   endpoint, model_saved, history_file, args, ret>>

\* the loop is exhausted; lines 143-152 (build_model is not modelled)
BuildModel ==
    /\ pc = "load"
    /\ i = Len(PySliceTo(data_paths, endpoint))
    /\ pc' = "fit"
    /\ UNCHANGED <<DEBUG, target_shape, data_paths, unreadable, input_shape, data,
                   labels, total, endpoint, i, visited, stdout, exc, model_saved,
                   history_file, args, ret>>

\* model.fit, line 154: the external collaborator completes or raises
Fit ==
    /\ pc = "fit"
    /\ \E completes \in BOOLEAN :
          IF completes THEN pc' = "save" /\ UNCHANGED exc
          ELSE pc' = "crashed" /\ exc' = "FitError"
    /\ UNCHANGED <<DEBUG, target_shape, data_paths, unreadable, input_shape, data,
                   labels, total, endpoint, i, visited, stdout, model_saved,
                   history_file, args, ret>>

\* model.save, line 155
SaveModel ==
    /\ pc = "save"
    /\ model_saved' = TRUE
    /\ pc' = "print"
    /\ UNCHANGED <<DEBUG, target_shape, data_paths, unreadable, input_shape, data,
                   labels, total, endpoint, i, visited, stdout, exc, history_file,
                   args, ret>>

\* print(history.history), line 156
PrintHistory ==
    /\ pc = "print"
    /\ stdout' = Append(stdout, Line("history", <<>>, "none", 0))
    /\ pc' = "dump"
    /\ UNCHANGED <<DEBUG, target_shape, data_paths, unreadable, input_shape, data,
                   labels, total, endpoint, i, visited, exc, model_saved,
                   history_file, args, ret>>

\* lines 157-158: open(..., 'wb') creates the file, empty; pickle.dump looks up
\* the name pickle, a NameError unless the module binds it; the with
\* statement closes the file either way
DumpHistory ==
    /\ pc = "dump"
    /\ IF "pickle" \in Imported
       THEN /\ history_file' = "written"
            /\ pc' = "done"
            /\ UNCHANGED exc
       ELSE /\ history_file' = "empty"
            /\ pc' = "crashed"
            /\ exc' = "NameError"
    /\ UNCHANGED <<DEBUG, target_shape, data_paths, unreadable, input_shape, data,
                   labels, total, endpoint, i, visited, stdout, model_saved, args, ret>>

Next ==
    \/ Allocate
    \/ LoadSubject
    \/ BuildModel
    \/ Fit
    \/ SaveModel
    \/ PrintHistory
    \/ DumpHistory

Spec == Init /\ [][Next]_vars

-----------------------------------------------------------------------------
(* Function-level specifications: Init draws the arguments, the one action  *)
(* calls the function.                                                      *)

\* the script's variables while a function is checked on its own
MainIdle ==
    /\ DEBUG = TRUE
    /\ target_shape = <<80, 96, 64>>
    /\ data_paths = <<>>
    /\ unreadable = {}
    /\ input_shape = <<>>
    /\ data = [shape |-> <<>>, rows |-> <<>>]
    /\ labels = [shape |-> <<>>, rows |-> <<>>]
    /\ total = 0
    /\ endpoint = 0
    /\ i = 0
    /\ visited = <<>>
    /\ stdout = <<>>
    /\ exc = "none"
    /\ model_saved = FALSE
    /\ history_file = "absent"

mainRest == <<DEBUG, target_shape, data_paths, unreadable, input_shape, data,
              labels, total, endpoint, i, visited, stdout, exc, model_saved,
              history_file>>

(* resize *)

\* volumes of 1..MaxScale times the canonical length on each axis
ImgShapes ==
    {<<a * OrigShape[1], b * OrigShape[2], c * OrigShape[3]>> :
        a \in 1..MaxScale, b \in 1..MaxScale, c \in 1..MaxScale}

\* target shapes of three positive integers, and the script's own target
TargetShapes3 ==
    {<<a, b, c>> : a \in 1..MaxTarget, b \in 1..MaxTarget, c \in 1..MaxTarget}
        \cup {<<80, 96, 64>>}

InitResize ==
    /\ pc = "call"
    /\ args \in [img : ImgShapes, shape : TargetShapes3 \cup {<<80, 96>>}]
    /\ ret = NotReturned
    /\ MainIdle

CallResize ==
    /\ pc = "call"
    /\ ret' = resize(args.img, args.shape, OrigShape)
    /\ pc' = "returned"
    /\ UNCHANGED <<args, mainRest>>

SpecResize == InitResize /\ [][CallResize]_vars

(* preprocess_label *)

\* label arrays of 1..MaxVoxels voxels with values in 0..MaxCode
LabelArrays ==
    UNION {[shape : {<<1, 1, n>>}, vox : [1..n -> 0..MaxCode]] : n \in 1..MaxVoxels}

InitLabel ==
    /\ pc = "call"
    /\ args \in [img : LabelArrays]
    /\ ret = NotReturned
    /\ MainIdle

CallPreprocessLabel ==
    /\ pc = "call"
    /\ ret' = preprocess_label(args.img, None)
    /\ pc' = "returned"
    /\ UNCHANGED <<args, mainRest>>

SpecLabel == InitLabel /\ [][CallPreprocessLabel]_vars

(* the dataset indexer *)

\* the five glob lists: list j has lens[j] files, all "std" but (at most) the
\* file at odd[1] of list odd[2], which is of variant odd[3]
GlobLists(lens, odd) ==
    [j \in 1..Len(GlobOrder) |->
        [k \in 1..lens[j] |->
            File(k, GlobOrder[j],
                 IF odd[1] = k /\ odd[2] = j THEN odd[3] ELSE "std")]]

InitIndex ==
    /\ pc = "call"
    /\ \E lens \in [1..Len(GlobOrder) -> 0..MaxFiles] :
       \E odd \in (1..MaxFiles) \X (1..Len(GlobOrder)) \X {"std", "nosep", "prefix"} :
          args = [lists |-> GlobLists(lens, odd)]
    /\ ret = NotReturned
    /\ MainIdle

CallIndex ==
    /\ pc = "call"
    /\ ret' = Index(args.lists)
    /\ pc' = "returned"
    /\ UNCHANGED <<args, mainRest>>

SpecIndex == InitIndex /\ [][CallIndex]_vars

-----------------------------------------------------------------------------
(* Claims about the functions.                                              *)

\* C6 as stated: for every 3-dimensional volume, of any shape, and every
\* target shape S of three positive integers, resize returns shape exactly S.
C6_ResizeAnyVolume ==
    (pc = "returned" /\ Len(args.shape) = 3) => ret = Return(args.shape)

\* C6 amended: for every volume whose shape is the canonical orig_shape
\* (155, 240, 240) and every target shape S of three positive integers, resize
\* returns shape exactly S.
C6_ResizeCanonicalVolume ==
    (pc = "returned" /\ Len(args.shape) = 3 /\ args.img = OrigShape)
        => ret = Return(args.shape)

C6_Witness ==
    /\ pc = "returned"
    /\ args.img = OrigShape
    /\ args.shape = <<80, 96, 64>>
    /\ ret = Return(<<80, 96, 64>>)

\* C7: for a label array with voxels in {0,1,2,4}, preprocess_label without a
\* target shape returns three 0/1 channels on the same voxel grid; channel 0
\* is 1 exactly at voxels equal to 1, channel 1 at 2, channel 2 at 4; the
\* channels sum to at most 1 at every voxel, and to 0 exactly at background.
C7_LabelSplit ==
    (pc = "returned" /\ \A v \in DOMAIN args.img.vox : args.img.vox[v] \in {0, 1, 2, 4})
        => /\ ret.exc = "none"
           /\ ret.val.shape = <<3>> \o args.img.shape
           /\ Len(ret.val.vox) = 3
           /\ \A c \in 1..3 : DOMAIN ret.val.vox[c] = DOMAIN args.img.vox
           /\ \A v \in DOMAIN args.img.vox :
                LET L == args.img.vox[v]
                    ch == [c \in 1..3 |-> ret.val.vox[c][v]]
                IN  /\ \A c \in 1..3 : ch[c] \in {0, 1}
                    /\ ch[1] = 1 <=> L = 1
                    /\ ch[2] = 1 <=> L = 2
                    /\ ch[3] = 1 <=> L = 4
                    /\ ch[1] + ch[2] + ch[3] <= 1
                    /\ ch[1] + ch[2] + ch[3] = 0 <=> L = 0

C7_Witness ==
    /\ pc = "returned"
    /\ args.img.vox = <<4, 1, 2>>
    /\ ret.val.vox = << <<0, 1, 0>>, <<0, 0, 1>>, <<1, 0, 0>> >>

\* a path ends in _<word>.nii.gz
EndsInUnderscoreWord(path) ==
    \E p \in 1..Len(path) :
        path[p] = "_" /\ \A q \in (p + 1)..Len(path) : path[q] \notin {"-", "/"}

\* a path ends in _<m>.nii.gz
EndsInModality(path, m) ==
    /\ Len(path) >= 2
    /\ path[Len(path)] = m
    /\ path[Len(path) - 1] = "_"

\* the k-th mapping holds the k-th path of each list and nothing else, each
\* under the word that follows its last underscore
BuiltFromKth(mapping, lists, k) ==
    /\ {mapping[key] : key \in DOMAIN mapping} = {lists[j][k] : j \in 1..Len(lists)}
    /\ \A key \in DOMAIN mapping :
          LET path == mapping[key]
          IN  /\ Len(path) > Len(key)
              /\ SubSeq(path, Len(path) - Len(key) + 1, Len(path)) = key
              /\ path[Len(path) - Len(key)] = "_"

\* the part of C8 about well-named files: five lists of one length N give N
\* mappings with exactly the keys t1, t2, t1ce, flair, seg
C8_FiveKeys ==
    LET lists == args.lists
    IN  (/\ \A j \in 1..Len(lists) : Len(lists[j]) = Len(lists[1])
         /\ \A j \in 1..Len(lists) : \A k \in 1..Len(lists[j]) :
               EndsInModality(lists[j][k], GlobOrder[j]))
        => /\ ret.exc = "none"
           /\ Len(ret.val) = Len(lists[1])
           /\ \A k \in 1..Len(ret.val) :
                 DOMAIN ret.val[k] = {Key(GlobOrder[j]) : j \in 1..Len(GlobOrder)}

\* C8 as stated: the indexer produces exactly min(len) mappings, the k-th built
\* from the k-th path of each list, without raising an error; well-named
\* files of equal counts give exactly the five keys.
C8_IndexerAnyNames ==
    pc = "returned"
        => /\ ret.exc = "none"
           /\ Len(ret.val) = MinLen(args.lists)
           /\ \A k \in 1..Len(ret.val) : BuiltFromKth(ret.val[k], args.lists, k)
           /\ C8_FiveKeys

\* C8 amended: provided each of the first min(len) paths of every list ends in
\* _<word>.nii.gz, the indexer produces exactly min(len) mappings, the k-th
\* built from the k-th path of each list, truncating to the shortest list
\* without an error; a zipped path that does not end so raises IndexError;
\* well-named files of equal counts give exactly the five keys.
C8_IndexerMatchedNames ==
    pc = "returned"
        => LET lists == args.lists
               n == MinLen(lists)
               matched == \A j \in 1..Len(lists) : \A k \in 1..n :
                              EndsInUnderscoreWord(lists[j][k])
           IN  /\ matched => /\ ret.exc = "none"
                             /\ Len(ret.val) = n
                             /\ \A k \in 1..n : BuiltFromKth(ret.val[k], lists, k)
               /\ ~matched => ret = Raise("IndexError")
               /\ C8_FiveKeys

C8_Witness ==
    /\ pc = "returned"
    /\ Len(args.lists[1]) = 2
    /\ Len(args.lists[5]) = 1
    /\ \A j \in 2..4 : Len(args.lists[j]) = 2
    /\ ret.exc = "none"
    /\ Len(ret.val) = 1
    /\ DOMAIN ret.val[1] = {Key(GlobOrder[j]) : j \in 1..Len(GlobOrder)}

-----------------------------------------------------------------------------
(* Claims about the script.                                                 *)

\* the load loop has ended and the script has gone on
LoadingEnded ==
    \/ pc \in {"fit", "save", "print", "dump", "done"}
    \/ pc = "crashed" /\ exc \in {"FitError", "NameError"}

\* the number of subjects the sample limit lets through
SubjectsToLoad == IF DEBUG THEN Min(Len(data_paths), 4) ELSE Len(data_paths)

\* the diagnostic of line 140 for iteration k was printed
Logged(k) ==
    LET imgs == data_paths[visited[k].i + 1]
    IN  /\ Key("t1") \in DOMAIN imgs
        /\ \E n \in 1..Len(stdout) :
              stdout[n] = Line("skip", imgs[Key("t1")], visited[k].exc, 0)

\* C1: when loading ends, the loop has visited every subject inside the
\* sample limit (all N with the limit off, the first min(N,4) with it on), in
\* index order, and the rows of every visited subject that raised nothing
\* hold that subject's data.
C1_LoadCoverage ==
    (LoadingEnded /\ Len(data_paths) >= 1 /\ target_shape = <<80, 96, 64>>)
        => /\ Len(visited) = SubjectsToLoad
           /\ \A k \in 1..Len(visited) : visited[k].i = k - 1
           /\ \A k \in 1..Len(visited) :
                 visited[k].exc = "none"
                    => /\ data.rows[k - 1] = SourcesOf(data_paths[k])
                       /\ labels.rows[k - 1] = data_paths[k][Key("seg")]

\* C2: once allocated, inputs has shape N x 4 x (80, 96, 64) and labels has
\* shape N x 3 x (80, 96, 64), N the number of subjects to load, whatever the
\* debug flag.
C2_TensorShapes ==
    (pc # "alloc" /\ Len(data_paths) >= 1 /\ target_shape = <<80, 96, 64>>)
        => /\ data.shape = <<SubjectsToLoad, 4, 80, 96, 64>>
           /\ labels.shape = <<SubjectsToLoad, 3, 80, 96, 64>>

\* the configuration the script is shipped with (lines 78, 102-104)
ShippedConfiguration == DEBUG /\ target_shape = <<80, 96, 64>>

\* C3: every exception raised while a subject is processed is logged with the
\* subject's t1 path and the loop goes on to the next subject; it never ends
\* the run.  (Stated for the shipped configuration.)
C3_PerSubjectRecovery ==
    \A k \in 1..Len(visited) :
        (ShippedConfiguration /\ visited[k].exc # "none")
            => /\ i > visited[k].i
               /\ ~(pc = "crashed" /\ exc = "KeyError")
               /\ Logged(k)

\* the step is an iteration of the load loop in which the try body raised
FailedIteration ==
    /\ Len(visited') = Len(visited) + 1
    /\ visited'[Len(visited')].exc # "none"

\* C4 as stated: an iteration that raises, at whichever step, leaves inputs
\* row i and labels row i, and every other row, as they were.
C4_FailedRowUnwritten ==
    [][FailedIteration => data' = data /\ labels' = labels]_vars

\* C4 amended: an iteration that raises leaves labels and every inputs row
\* j # i as they were; inputs row i is as it was when the exception came from
\* a modality volume or the assignment of data[i], and holds the subject's
\* four volumes when it came from the seg volume or the assignment of
\* labels[i].
C4_FailedRowByStep ==
    [][FailedIteration =>
          LET v == visited'[Len(visited')]
          IN  /\ labels' = labels
              /\ data'.shape = data.shape
              /\ DOMAIN data'.rows = DOMAIN data.rows
              /\ \A j \in DOMAIN data.rows \ {v.i} : data'.rows[j] = data.rows[j]
              /\ v.at # "seg" => data' = data
              /\ v.at = "seg" => data'.rows[v.i] = SourcesOf(data_paths[v.i + 1])]_vars

C4_Witness ==
    \E k \in 1..Len(visited) :
        /\ visited[k].at = "seg"
        /\ data.rows[visited[k].i] = SourcesOf(data_paths[k])
        /\ labels.rows[visited[k].i] = Uninit
        /\ \E h \in 1..Len(visited) : visited[h].at = "flair" /\ data.rows[visited[h].i] = Uninit

\* C5 as stated: the AssertionError of resize, raised while a subject is
\* processed, is not recovered: it ends the run, no later subject is
\* processed.
C5_ShapeErrorFatal ==
    \A k \in 1..Len(visited) :
        visited[k].exc = "AssertionError"
            => /\ pc = "crashed"
               /\ exc = "AssertionError"
               /\ Len(visited) = k

\* C5 amended: the AssertionError of resize, raised while a subject is
\* processed, is recovered like any other exception: the diagnostic with the
\* subject's t1 path is printed, the loop goes on to the next subject, and
\* the run is not ended by it.
C5_ShapeErrorSkipped ==
    \A k \in 1..Len(visited) :
        visited[k].exc = "AssertionError"
            => /\ exc # "AssertionError"
               /\ i > visited[k].i
               /\ Logged(k)

C5_Witness ==
    /\ pc = "fit"
    /\ Len(visited) >= 2
    /\ \A k \in 1..Len(visited) : visited[k].exc = "AssertionError" /\ Logged(k)

\* C9: a run whose loading and fitting complete saves the model, prints the
\* history and writes the history file, then ends normally; the history file
\* is never left created but empty.  (Stated for the shipped configuration.)
C9_OutputArtifacts ==
    ShippedConfiguration
        => /\ history_file # "empty"
           /\ (model_saved /\ pc \in {"done", "crashed"})
                 => /\ pc = "done"
                    /\ history_file = "written"
                    /\ \E n \in 1..Len(stdout) : stdout[n].kind = "history"

\* C10: for N >= 1 subjects and either debug flag, every row index the loop
\* uses is a row of both tensors, and no more subjects are visited than rows
\* were allocated.
C10_RowIndexSafe ==
    (pc # "alloc" /\ Len(data_paths) >= 1)
        => /\ \A k \in 1..Len(visited) :
                 /\ visited[k].i \in DOMAIN data.rows
                 /\ visited[k].i \in DOMAIN labels.rows
                 /\ 0 <= visited[k].i
                 /\ visited[k].i < data.shape[1]
                 /\ visited[k].i < labels.shape[1]
           /\ Len(visited) <= data.shape[1]
           /\ Len(visited) <= labels.shape[1]

C10_Witness ==
    /\ pc = "fit"
    /\ DEBUG
    /\ Len(data_paths) = 5
    /\ data.shape[1] = 4
    /\ Len(visited) = 4
    /\ visited[4].i = 3

====
